---- MODULE Spec2Model ----
(***************************************************************************)
(* Model of the DKT trainer (dkt/trainer.py) and of the input handling of  *)
(* the sequence models (dkt/model.py).                                     *)
(*                                                                         *)
(* SpecRun / SpecRunFair : the control loop of run(): get_model, then per  *)
(*   epoch train, validate, checkpoint-or-count, early stopping.  train()  *)
(*   and validate() are single steps whose AUC is arbitrary.               *)
(* SpecBatch / SpecModel / SpecLoss : get_model followed by one train()    *)
(*   pass and one validate() pass in detail: per batch process_batch, the  *)
(*   model's forward (what it reads of the input and the width of what it  *)
(*   hands to the sequence layer), compute_loss and the collection of the  *)
(*   metric inputs.  The three differ in the inputs Init draws: batches    *)
(*   (SpecBatch), model hyper-parameters (SpecModel), network outputs and  *)
(*   targets (SpecLoss).  They end where validate() calls get_metric.      *)
(*                                                                         *)
(* AUC values are modelled as the integer levels 0..MaxAuc (an AUC lies in *)
(* [0, 1]; only the order of the values matters to run()).  Tensors are    *)
(* sequences of rows; float tensors hold small whole numbers, on which     *)
(* float32 arithmetic and .to(torch.int64) are exact.  The network itself  *)
(* (LSTM / attention / BERT layers) is an oracle `net` giving the output   *)
(* for every batch.  update_params, the scheduler, wandb and the printing  *)
(* touch none of the modelled state and are left out.                      *)
(***************************************************************************)
EXTENDS Integers, Sequences, FiniteSets, TLC

\* ------------------------------------------------------------------ bounds
MaxEpochs == 4
MaxPatience == 2
MaxAuc == 2
MaxRows == 2
MaxSeqLen == 3
MaxCate == 3
MaxCont == 1
MaxId == 1
MaxHidden == 4
MaxDimDiv == 2
MaxBatches == 2
MaxPred == 2

\* --------------------------------------------------------- program constants
\* nn.Embedding(3, ...): rows of the interaction embedding table
InteractionRows == 3

\* ------------------------------------------------------------- helpers
Max(S) == CHOOSE x \in S : \A y \in S : y <= x
Min(S) == CHOOSE x \in S : \A y \in S : x <= y

RECURSIVE SumSeq(_)
SumSeq(s) == IF s = <<>> THEN 0 ELSE Head(s) + SumSeq(Tail(s))

RECURSIVE Concat(_)
Concat(ss) == IF ss = <<>> THEN <<>> ELSE Head(ss) \o Concat(Tail(ss))

\* Python: s[start:stop] and s[i], 0-based, negative counts from the end
PyPos(i, n) == IF i < 0 THEN Max({0, n + i}) ELSE Min({i, n})
PySlice(s, start, stop) ==
    SubSeq(s, PyPos(start, Len(s)) + 1, PyPos(stop, Len(s)))
PyHas(s, i) == IF i < 0 THEN -i <= Len(s) ELSE i < Len(s)
PyIndex(s, i) == IF i < 0 THEN s[Len(s) + i + 1] ELSE s[i + 1]

\* ------------------------------------------------------------------ state
VARIABLES
    args,                    \* the argparse namespace handed to run()
    model,                   \* the local `model` of run()
    pc,                      \* position of run()
    epoch,                   \* loop variable of `for epoch in range(n_epochs)`
    best_auc,
    early_stopping_counter,
    auc,                     \* result of the last validate()
    checkpoint,              \* the file written by save_checkpoint
    aucs,                    \* history: validation AUC of every epoch
    trainPasses,             \* history: number of train() calls
    validPasses,             \* history: number of validate() calls
    decisions,               \* history: number of save-or-count decisions
    saves,                   \* history: epochs (1-based) that wrote a checkpoint
    stopped,                 \* history: the loop was left by `break`
    loader,                  \* the batches the data loader yields
    net,                     \* oracle: the network's output for every batch
    step,                    \* enumerate(loader): 0-based index of the batch
    stage,                   \* position inside the loop body of train/validate
    batch,                   \* loop variable `batch`
    input,                   \* input = process_batch(batch, args)
    fwd,                     \* what forward() read and built from `input`
    preds,                   \* preds = model(input)
    targets,                 \* targets = input[-1]
    loss,                    \* loss = compute_loss(preds, targets)
    losses,
    total_preds,
    total_targets,
    metric_in                \* the arguments of get_metric

runVars == <<args, model, pc, epoch, best_auc, early_stopping_counter, auc,
             checkpoint, aucs, trainPasses, validPasses, decisions, saves,
             stopped>>

passVars == <<loader, net, step, stage, batch, input, fwd, preds, targets,
              loss, losses, total_preds, total_targets, metric_in>>

vars == <<args, model, pc, epoch, best_auc, early_stopping_counter, auc,
          checkpoint, aucs, trainPasses, validPasses, decisions, saves,
          stopped, loader, net, step, stage, batch, input, fwd, preds,
          targets, loss, losses, total_preds, total_targets, metric_in>>

\* ----------------------------------------------------------- model.py
ModelNames == {"lstm", "lstmattn", "bert"}
OtherNames == {"lgbm"}
Devices == {"cpu", "cuda"}

Unbound == [kind |-> "unbound", device |-> "none"]
NoCheckpoint == [epoch |-> 0]

\* emb_dim = hidden_dim if n_cont_feat == 0 else hidden_dim // 2
EmbDim(a) == IF a.n_cont_feat = 0 THEN a.hidden_dim ELSE a.hidden_dim \div 2

\* nn.Embedding(value + 1, hidden_dim // dim_div) for every value
EmbeddingFeatures(a, values) ==
    [i \in 1..Len(values) |->
        [num |-> values[i] + 1, dim |-> a.hidden_dim \div a.dim_div]]

\* the layers LSTM.__init__ builds (nn.Module construction is on the cpu)
LSTM(a) ==
    [kind |-> "lstm", device |-> "cpu", hidden_dim |-> a.hidden_dim,
     embedding_interaction |->
        [num |-> InteractionRows, dim |-> a.hidden_dim \div a.dim_div],
     embedding_features |-> EmbeddingFeatures(a, a.n_embedding_layers),
     has_cont_emb |-> a.n_cont_feat # 0,
     embedding_cont_features |-> [in |-> a.n_cont_feat, out |-> EmbDim(a)],
     comb_proj |->
        [in |-> (a.hidden_dim \div a.dim_div)
                   * (Len(a.n_embedding_layers) + 1),
         out |-> EmbDim(a)],
     seq_input_size |-> a.hidden_dim]

\* LSTMATTN.__init__: tables for n_embedding_layers[:-2] only; the last two
\* features go through the pretrained user and item lookups
LSTMATTN(a) ==
    [kind |-> "lstmattn", device |-> "cpu", hidden_dim |-> a.hidden_dim,
     embedding_interaction |->
        [num |-> InteractionRows, dim |-> a.hidden_dim \div a.dim_div],
     embedding_features |->
        EmbeddingFeatures(a, PySlice(a.n_embedding_layers, 0, -2)),
     has_cont_emb |-> a.n_cont_feat # 0,
     embedding_cont_features |-> [in |-> a.n_cont_feat, out |-> EmbDim(a)],
     comb_proj |->
        [in |-> (a.hidden_dim \div a.dim_div) * Len(a.n_embedding_layers),
         out |-> EmbDim(a)],
     seq_input_size |-> a.hidden_dim]

\* Bert.__init__: as LSTM, the encoder's hidden_size is hidden_dim
Bert(a) ==
    [kind |-> "bert", device |-> "cpu", hidden_dim |-> a.hidden_dim,
     embedding_interaction |->
        [num |-> InteractionRows, dim |-> a.hidden_dim \div a.dim_div],
     embedding_features |-> EmbeddingFeatures(a, a.n_embedding_layers),
     has_cont_emb |-> a.n_cont_feat # 0,
     embedding_cont_features |-> [in |-> a.n_cont_feat, out |-> EmbDim(a)],
     comb_proj |->
        [in |-> (a.hidden_dim \div a.dim_div)
                   * (Len(a.n_embedding_layers) + 1),
         out |-> EmbDim(a)],
     seq_input_size |-> a.hidden_dim]

\* model.to(args.device)
To(m, device) == [m EXCEPT !.device = device]

\* ------------------------------------------------------------- get_model
\* get_model with a model bound before the three tests
get_model_default(a) ==
    LET m0 == LSTM(a)
        m1 == IF a.model = "lstm" THEN To(LSTM(a), a.device) ELSE m0
        m2 == IF a.model = "lstmattn" THEN To(LSTMATTN(a), a.device) ELSE m1
        m3 == IF a.model = "bert" THEN To(Bert(a), a.device) ELSE m2
    IN  m3

\* get_model: three independent tests, then `return model`; the local is
\* unbound when no test matched and the return raises UnboundLocalError,
\* which the result Unbound stands for.
get_model(a) ==
    LET m0 == Unbound
        m1 == IF a.model = "lstm" THEN To(LSTM(a), a.device) ELSE m0
        m2 == IF a.model = "lstmattn" THEN To(LSTMATTN(a), a.device) ELSE m1
        m3 == IF a.model = "bert" THEN To(Bert(a), a.device) ELSE m2
    IN  m3

\* ------------------------------------------------------------------ run()
\* `auc > best_auc`
Improved_ge(a, best) == a >= best
Improved(a, best) == a > best

\* `early_stopping_counter >= args.patience`
PatienceExhausted_gt(c, patience) == c > patience
PatienceExhausted(c, patience) == c >= patience

\* `for epoch in range(args.n_epochs)`: is there an epoch numbered e
InRange_le(e, n) == e <= n
InRange(e, n) == e < n

\* the namespace: the fields run(), get_model, process_batch and the model
\* constructors read
Args(name, device, n_epochs, patience, hidden, div, n_cate, n_cont, layers) ==
    [model |-> name, device |-> device, n_epochs |-> n_epochs,
     patience |-> patience, hidden_dim |-> hidden, dim_div |-> div,
     n_cate_feat |-> n_cate, n_cont_feat |-> n_cont,
     n_embedding_layers |-> layers]

RunArgs ==
    {Args(name, device, n, p, 2 * MaxHidden, MaxDimDiv, 1, 0, <<MaxId + 1>>) :
        name \in ModelNames \cup OtherNames, device \in Devices,
        n \in 0..MaxEpochs, p \in 0..MaxPatience}

NoFwd == [error |-> "not run"]
NoLoss == [num |-> -1, den |-> 0]
NoMetric == [targets |-> <<>>, preds |-> <<>>]

\* the state at the call of run(), nothing of a pass computed yet
InitCommon ==
    /\ model = Unbound
    /\ pc = "get_model"
    /\ epoch = 0
    /\ best_auc = -1
    /\ early_stopping_counter = 0
    /\ auc = -1
    /\ checkpoint = NoCheckpoint
    /\ aucs = <<>>
    /\ trainPasses = 0
    /\ validPasses = 0
    /\ decisions = 0
    /\ saves = {}
    /\ stopped = FALSE
    /\ step = 0
    /\ batch = <<>>
    /\ input = <<>>
    /\ fwd = NoFwd
    /\ preds = <<>>
    /\ targets = <<>>
    /\ loss = NoLoss
    /\ losses = <<>>
    /\ total_preds = <<>>
    /\ total_targets = <<>>
    /\ metric_in = NoMetric

InitRun ==
    /\ args \in RunArgs
    /\ loader = <<>>
    /\ net = <<>>
    /\ stage = "pass"
    /\ InitCommon

\* lines 25-36: model = get_model(args); best_auc = -1; counter = 0; enter
\* the loop.  An UnboundLocalError leaves run().
GetModel ==
    /\ pc = "get_model"
    /\ LET m == get_model(args) IN
       IF m = Unbound
       THEN /\ pc' = "error"
            /\ UNCHANGED <<model, best_auc, early_stopping_counter, epoch>>
       ELSE /\ model' = m
            /\ best_auc' = -1
            /\ early_stopping_counter' = 0
            /\ epoch' = 0
            /\ pc' = IF InRange(0, args.n_epochs) THEN "train" ELSE "done"
    /\ UNCHANGED <<args, auc, checkpoint, aucs, trainPasses, validPasses,
                   decisions, saves, stopped, passVars>>

\* lines 41-43: one pass over the training data
Train ==
    /\ pc = "train"
    /\ stage = "pass"
    /\ trainPasses' = trainPasses + 1
    /\ pc' = "validate"
    /\ UNCHANGED <<args, model, epoch, best_auc, early_stopping_counter, auc,
                   checkpoint, aucs, validPasses, decisions, saves, stopped,
                   passVars>>

\* line 46: auc, acc = validate(...)
Validate ==
    /\ pc = "validate"
    /\ stage = "pass"
    /\ \E a \in 0..MaxAuc :
          /\ auc' = a
          /\ aucs' = Append(aucs, a)
    /\ validPasses' = validPasses + 1
    /\ pc' = "decide"
    /\ UNCHANGED <<args, model, epoch, best_auc, early_stopping_counter,
                   checkpoint, trainPasses, decisions, saves, stopped,
                   passVars>>

\* lines 59-71, then the loop header: the epoch improved, save a checkpoint
SaveCheckpoint ==
    /\ pc = "decide"
    /\ Improved(auc, best_auc)
    /\ best_auc' = auc
    /\ checkpoint' = [epoch |-> epoch + 1]
    /\ saves' = saves \cup {epoch + 1}
    /\ early_stopping_counter' = 0
    /\ decisions' = decisions + 1
    /\ epoch' = IF InRange(epoch + 1, args.n_epochs) THEN epoch + 1 ELSE epoch
    /\ pc' = IF InRange(epoch + 1, args.n_epochs) THEN "train" ELSE "done"
    /\ UNCHANGED <<args, model, auc, aucs, trainPasses, validPasses, stopped,
                   passVars>>

\* lines 72-78, then the loop header: count the epoch, break on patience
CountOrStop ==
    /\ pc = "decide"
    /\ ~Improved(auc, best_auc)
    /\ early_stopping_counter' = early_stopping_counter + 1
    /\ decisions' = decisions + 1
    /\ IF PatienceExhausted(early_stopping_counter + 1, args.patience)
       THEN /\ stopped' = TRUE
            /\ pc' = "done"
            /\ epoch' = epoch
       ELSE /\ stopped' = stopped
            /\ epoch' = IF InRange(epoch + 1, args.n_epochs)
                        THEN epoch + 1 ELSE epoch
            /\ pc' = IF InRange(epoch + 1, args.n_epochs)
                     THEN "train" ELSE "done"
    /\ UNCHANGED <<args, model, best_auc, auc, checkpoint, aucs, trainPasses,
                   validPasses, saves, passVars>>

NextRun == GetModel \/ Train \/ Validate \/ SaveCheckpoint \/ CountOrStop

SpecRun == InitRun /\ [][NextRun]_vars

\* run() is one sequential call: every enabled step is eventually taken
SpecRunFair == SpecRun /\ WF_vars(NextRun)

\* ------------------------------------------------------- process_batch
\* a 2-D tensor is a sequence of rows, a row a sequence over the positions
Mul(x, y) == [r \in 1..Len(x) |-> [t \in 1..Len(x[r]) |-> x[r][t] * y[r][t]]]
AddOne(x) == [r \in 1..Len(x) |-> [t \in 1..Len(x[r]) |-> x[r][t] + 1]]

\* x.roll(shifts=1, dims=1) on one row: the last element comes first
RollLeft(row) ==
    [t \in 1..Len(row) |-> IF t = Len(row) THEN row[1] ELSE row[t + 1]]
Roll(row) ==
    [t \in 1..Len(row) |-> IF t = 1 THEN row[Len(row)] ELSE row[t - 1]]

\* interaction_mask[:, 0] = 0
KeepFirst(row) == row
ZeroFirst(row) == [t \in 1..Len(row) |-> IF t = 1 THEN 0 ELSE row[t]]

\* lines 296-300: correct + 1, rolled one step right, times the rolled mask
\* whose first column is zeroed
Interaction(correct, mask) ==
    LET plus_one == AddOne(correct)
        interaction == [r \in 1..Len(plus_one) |-> Roll(plus_one[r])]
        interaction_mask == [r \in 1..Len(mask) |-> ZeroFirst(Roll(mask[r]))]
    IN  Mul(interaction, interaction_mask)

\* line 303: ((feature + 1) * mask).to(torch.int64)
CateFeature_maskfirst(feature, mask) == AddOne(Mul(feature, mask))
CateFeature(feature, mask) == Mul(AddOne(feature), mask)

\* lines 308-317: every continuous feature (c + 1) * mask, unsqueezed and
\* concatenated along dim 2; an empty list stays the empty list
ContFeatures(cont_features, mask) ==
    IF Len(cont_features) # 0
    THEN [r \in 1..Len(mask) |-> [t \in 1..Len(mask[r]) |->
            [i \in 1..Len(cont_features) |->
                (cont_features[i][r][t] + 1) * mask[r][t]]]]
    ELSE cont_features

\* lines 320-321: np.count_nonzero(mask, axis=1).view(-1, 1) - 1
GatherIndex(mask) ==
    [r \in 1..Len(mask) |->
        <<Cardinality({t \in 1..Len(mask[r]) : mask[r][t] # 0}) - 1>>]

\* process_batch with mask and interaction swapped in the returned tuple
process_batch_swapped(b, a) ==
    LET cate_features == PySlice(b, 0, a.n_cate_feat)
        cont_features == PySlice(b, a.n_cate_feat, -2)
        mask == PyIndex(b, -2)
        correct == PyIndex(b, -1)
    IN  [i \in 1..Len(cate_features) |-> CateFeature(cate_features[i], mask)]
        \o <<ContFeatures(cont_features, mask), Interaction(correct, mask),
             mask, GatherIndex(mask), correct>>

\* process_batch: the tuple
\* (*cate_features, cont_features, mask, interaction, gather_index, correct)
process_batch(b, a) ==
    LET cate_features == PySlice(b, 0, a.n_cate_feat)
        cont_features == PySlice(b, a.n_cate_feat, -2)
        mask == PyIndex(b, -2)
        correct == PyIndex(b, -1)
    IN  [i \in 1..Len(cate_features) |-> CateFeature(cate_features[i], mask)]
        \o <<ContFeatures(cont_features, mask), mask,
             Interaction(correct, mask), GatherIndex(mask), correct>>

\* ------------------------------------------------------------ forward
Table(kind, index) == [kind |-> kind, index |-> index]

\* zip(features, self.embedding_features): pairs up to the shorter length
ZipEmbed(features, tables) ==
    [i \in 1..Min({Len(features), Len(tables)}) |->
        [table |-> Table("embedding_features", i), x |-> features[i]]]

\* width of X handed to the sequence layer: comb_proj's output, and the
\* continuous embedding concatenated to it when has_cont_emb
Width(m) ==
    m.comb_proj.out
    + (IF m.has_cont_emb THEN m.embedding_cont_features.out ELSE 0)

\* LSTM.forward and Bert.forward, lines 71-93 and 304-325
ForwardLSTM(m, inp) ==
    LET three == PySlice(inp, -5, -2)
        embed_interaction ==
            [table |-> Table("embedding_interaction", 0), x |-> three[3]]
    IN  [error |-> IF Width(m) = m.seq_input_size
                   THEN "none" ELSE "RuntimeError",
         cont_features |-> three[1],
         mask |-> three[2],
         interaction |-> three[3],
         embedded |-> <<embed_interaction>>
                      \o ZipEmbed(PySlice(inp, 0, -5), m.embedding_features),
         width |-> Width(m)]

\* LSTMATTN.forward, lines 184-236: the interaction is not embedded, the
\* features input[-7] and input[-6] go through the pretrained lookups
ForwardLSTMATTN(m, inp) ==
    IF ~PyHas(inp, -7)
    THEN [error |-> "IndexError"]
    ELSE LET three == PySlice(inp, -5, -2) IN
         [error |-> IF Width(m) = m.seq_input_size
                    THEN "none" ELSE "RuntimeError",
          cont_features |-> three[1],
          mask |-> three[2],
          interaction |-> three[3],
          embedded |-> ZipEmbed(PySlice(inp, 0, -7), m.embedding_features)
                       \o <<[table |-> Table("user_lookup", 0),
                             x |-> PyIndex(inp, -7)],
                            [table |-> Table("item_lookup", 0),
                             x |-> PyIndex(inp, -6)]>>,
          width |-> Width(m)]

Forward_(m, inp) ==
    IF m.kind = "lstmattn" THEN ForwardLSTMATTN(m, inp)
    ELSE ForwardLSTM(m, inp)

\* ------------------------------------------------- loss and collection
\* get_criterion(preds, targets): a per-element loss of the shape of preds.
\* Prediction levels 0..MaxPred; the loss is the distance to the target's end
\* of the scale.
get_criterion(p, y) ==
    [r \in 1..Len(p) |-> [t \in 1..Len(p[r]) |->
        IF y[r][t] = 1 THEN MaxPred - p[r][t] ELSE p[r][t]]]

\* x[:, -1]
FirstColumn(x) == [r \in 1..Len(x) |-> x[r][1]]
LastColumn(x) == [r \in 1..Len(x) |-> x[r][Len(x[r])]]

\* torch.mean of a vector, kept exact as a fraction
Mean(v) == [num |-> SumSeq(v), den |-> Len(v)]

\* compute_loss, lines 345-350
compute_loss(p, y) == Mean(LastColumn(get_criterion(p, y)))

\* ----------------------------------------- one train and one validate pass
\* lines 144 and 189: the next batch of the loader and its process_batch
ProcessBatch ==
    /\ pc \in {"train", "validate"}
    /\ stage = "batch"
    /\ step < Len(loader)
    /\ batch' = loader[step + 1]
    /\ input' = process_batch(loader[step + 1], args)
    /\ stage' = "model"
    /\ UNCHANGED <<runVars, loader, net, step, fwd, preds, targets, loss,
                   losses, total_preds, total_targets, metric_in>>

\* lines 146-149 and 191-192: preds = model(input); targets = input[-1].
\* An exception of forward() leaves run().
Forward ==
    /\ pc \in {"train", "validate"}
    /\ stage = "model"
    /\ fwd' = Forward_(model, input)
    /\ IF fwd'.error = "none"
       THEN /\ preds' = net[step + 1]
            /\ targets' = PyIndex(input, -1)
            /\ stage' = "collect"
            /\ pc' = pc
       ELSE /\ stage' = "raised"
            /\ pc' = "error"
            /\ UNCHANGED <<preds, targets>>
    /\ UNCHANGED <<args, model, epoch, best_auc, early_stopping_counter, auc,
                   checkpoint, aucs, trainPasses, validPasses, decisions,
                   saves, stopped, loader, net, step, batch, input, loss,
                   losses, total_preds, total_targets, metric_in>>

\* lines 151-176: the loss, the last position of preds and targets appended;
\* after the last batch the lists are concatenated for get_metric and the
\* pass returns
TrainCollect ==
    /\ pc = "train"
    /\ stage = "collect"
    /\ loss' = compute_loss(preds, targets)
    /\ LET tp == Append(total_preds, LastColumn(preds))
           tt == Append(total_targets, LastColumn(targets))
       IN  IF step + 1 < Len(loader)
           THEN /\ total_preds' = tp
                /\ total_targets' = tt
                /\ losses' = Append(losses, loss')
                /\ step' = step + 1
                /\ UNCHANGED <<metric_in, pc, trainPasses>>
           ELSE /\ metric_in' = [targets |-> Concat(tt), preds |-> Concat(tp)]
                /\ total_preds' = <<>>
                /\ total_targets' = <<>>
                /\ losses' = <<>>
                /\ step' = 0
                /\ trainPasses' = trainPasses + 1
                /\ pc' = "validate"
    /\ stage' = "batch"
    /\ UNCHANGED <<args, model, epoch, best_auc, early_stopping_counter, auc,
                   checkpoint, aucs, validPasses, decisions, saves, stopped,
                   loader, net, batch, input, fwd, preds, targets>>

\* lines 194-212: as train, without a loss; the pass ends at get_metric
ValidCollect ==
    /\ pc = "validate"
    /\ stage = "collect"
    /\ LET tp == Append(total_preds, LastColumn(preds))
           tt == Append(total_targets, LastColumn(targets))
       IN  IF step + 1 < Len(loader)
           THEN /\ total_preds' = tp
                /\ total_targets' = tt
                /\ step' = step + 1
                /\ stage' = "batch"
                /\ UNCHANGED <<metric_in, pc, validPasses>>
           ELSE /\ metric_in' = [targets |-> Concat(tt), preds |-> Concat(tp)]
                /\ total_preds' = <<>>
                /\ total_targets' = <<>>
                /\ step' = 0
                /\ stage' = "metric"
                /\ validPasses' = validPasses + 1
                /\ pc' = "validated"
    /\ UNCHANGED <<args, model, epoch, best_auc, early_stopping_counter, auc,
                   checkpoint, aucs, trainPasses, decisions, saves, stopped,
                   loader, net, batch, input, fwd, preds, targets, loss,
                   losses>>

NextPass == GetModel \/ ProcessBatch \/ Forward \/ TrainCollect \/ ValidCollect

\* ------------------------------------------------------------ the inputs
Bits(L) == [1..L -> {0, 1}]

\* raw IDs of categorical feature f, all inside 0..value-1
CatePattern(f, value, rows, L) ==
    [r \in 1..rows |-> [t \in 1..L |-> (f + r + t) % value]]

\* values of continuous feature j
ContPattern(j, rows, L) ==
    [r \in 1..rows |-> [t \in 1..L |-> (j + r + 2 * t) % (MaxId + 2)]]

\* rows after the first: row r is left-padded by r - 1 positions
MaskPattern(r, L) == [t \in 1..L |-> IF t < r THEN 0 ELSE 1]
CorrectPattern(k, r, L) == [t \in 1..L |-> (k + r + t) % 2]
PredPattern(k, r, L) == [t \in 1..L |-> (k + r + 2 * t) % (MaxPred + 1)]

\* vocabulary size of categorical feature f
Vocabulary(f) == MaxId + f

\* a batch as the loader yields it:
\* [cate_1 .. cate_n, cont_1 .. cont_m, mask, correct]
MkBatch(n_cate, n_cont, rows, L, mask, correct) ==
    [f \in 1..n_cate |-> CatePattern(f, Vocabulary(f), rows, L)]
    \o [j \in 1..n_cont |-> ContPattern(j, rows, L)]
    \o <<mask, correct>>

MaskTensor(rows, L) == [r \in 1..rows |-> MaskPattern(r, L)]
CorrectTensor(k, rows, L) == [r \in 1..rows |-> CorrectPattern(k, r, L)]
PredTensor(k, rows, L) == [r \in 1..rows |-> PredPattern(k, r, L)]

\* a tensor with its first row replaced
WithFirstRow(x, first) == [x EXCEPT ![1] = first]

\* SpecBatch: every mask and correct row of every length (first row) and
\* every number of categorical and continuous features, for the LSTM
InitBatch ==
    /\ \E n_cate \in 1..MaxCate, n_cont \in 0..MaxCont,
          rows \in 1..MaxRows, L \in 1..MaxSeqLen :
          \E m1 \in Bits(L), c1 \in Bits(L) :
             /\ args = Args("lstm", "cpu", 1, 1, 2 * MaxHidden, MaxDimDiv,
                            n_cate, n_cont,
                            [f \in 1..n_cate |-> Vocabulary(f)])
             /\ loader =
                   <<MkBatch(n_cate, n_cont, rows, L,
                        WithFirstRow(MaskTensor(rows, L), m1),
                        WithFirstRow(CorrectTensor(1, rows, L), c1))>>
             /\ net = <<PredTensor(1, rows, L)>>
    /\ stage = "batch"
    /\ InitCommon

\* SpecModel: every hidden_dim, dim_div, number of features and of embedding
\* tables, every model and device, on one batch shape
InitModel ==
    /\ \E name \in ModelNames, device \in Devices, hidden_dim \in 1..MaxHidden,
          dim_div \in 1..MaxDimDiv, n_cate \in 1..MaxCate,
          n_cont \in 0..MaxCont, n_tables \in 1..MaxCate :
          /\ args = Args(name, device, 1, 1, hidden_dim, dim_div, n_cate,
                         n_cont, [f \in 1..n_tables |-> Vocabulary(f)])
          /\ loader =
                <<MkBatch(n_cate, n_cont, MaxRows, MaxSeqLen,
                     MaskTensor(MaxRows, MaxSeqLen),
                     CorrectTensor(1, MaxRows, MaxSeqLen))>>
          /\ net = <<PredTensor(1, MaxRows, MaxSeqLen)>>
    /\ stage = "batch"
    /\ InitCommon

\* SpecLoss: MaxBatches batches of MaxRows rows; every network output and
\* every target in the first row of the first batch
InitLoss ==
    /\ \E L \in 1..MaxSeqLen :
          \E c1 \in Bits(L), p1 \in [1..L -> 0..MaxPred] :
             /\ args = Args("lstm", "cpu", 1, 1, 2 * MaxHidden, MaxDimDiv,
                            1, 0, <<Vocabulary(1)>>)
             /\ loader =
                   [k \in 1..MaxBatches |->
                      MkBatch(1, 0, MaxRows, L,
                         MaskTensor(MaxRows, L),
                         IF k = 1
                         THEN WithFirstRow(CorrectTensor(k, MaxRows, L), c1)
                         ELSE CorrectTensor(k, MaxRows, L))]
             /\ net =
                   [k \in 1..MaxBatches |->
                      IF k = 1
                      THEN WithFirstRow(PredTensor(k, MaxRows, L), p1)
                      ELSE PredTensor(k, MaxRows, L)]
    /\ stage = "batch"
    /\ InitCommon

SpecBatch == InitBatch /\ [][NextPass]_vars
SpecModel == InitModel /\ [][NextPass]_vars
SpecLoss == InitLoss /\ [][NextPass]_vars

\* ---------------------------------------------------- properties of run()
\* best validation AUC of the epochs before epoch k (-1: the initial value)
BestBefore(k) == Max({-1} \cup {aucs[i] : i \in 1..(k - 1)})

\* epoch k strictly exceeded the best AUC so far
Improving(k) == aucs[k] > BestBefore(k)

\* number of consecutive non-improving epochs ending with epoch k
Streak(k) == k - Max({0} \cup {j \in 1..k : Improving(j)})

\* training stops at the end of the first decided epoch whose streak of
\* non-improving epochs reaches `limit`, with no pass after it; an improving
\* epoch resets the counter
StopsAtFirst(limit) ==
    /\ \A k \in 1..decisions :
          Streak(k) >= limit =>
             /\ k = decisions
             /\ pc = "done"
             /\ trainPasses = k
             /\ validPasses = k
    /\ stopped <=> (decisions >= 1 /\ Streak(decisions) >= limit)
    /\ (decisions >= 1 /\ Improving(decisions)) => early_stopping_counter = 0

\* C1 (as stated): training stops at the end of the first epoch in which the
\* number of consecutive non-improving epochs reaches args.patience, no train
\* or validate pass follows, and an improving epoch resets the count to 0.
C1_StopsAtPatience == StopsAtFirst(args.patience)

\* C1 (amended): the same with the limit max(args.patience, 1): for
\* args.patience >= 1 as stated; with args.patience = 0 training stops at the
\* end of the first non-improving epoch, not at the end of the first epoch.
C1_StopsAtPatienceAtLeastOne == StopsAtFirst(Max({args.patience, 1}))

C1_Witness ==
    /\ stopped
    /\ args.patience = 2
    /\ decisions < args.n_epochs
    /\ trainPasses = decisions

\* C2: a checkpoint is written in an epoch iff its validation AUC is strictly
\* greater than the AUC of every earlier epoch (and than -1); best_auc is the
\* maximum AUC seen so far and the checkpoint's epoch field is the 1-based
\* index of the earliest epoch that attained it.
C2_CheckpointIffStrictBest ==
    /\ \A k \in 1..decisions :
          (k \in saves) <=>
             (aucs[k] > -1 /\ \A i \in 1..(k - 1) : aucs[k] > aucs[i])
    /\ decisions >= 1 =>
          LET best == Max({aucs[i] : i \in 1..decisions}) IN
          /\ best_auc = best
          /\ checkpoint.epoch = Min({k \in 1..decisions : aucs[k] = best})
          /\ checkpoint.epoch = Max(saves)

C2_Witness ==
    /\ decisions >= 3
    /\ checkpoint.epoch = 2
    /\ aucs[3] = best_auc

\* the 1-based number of the epoch that wrote the last checkpoint, 0 if none
LastSave == Max(saves \cup {0})

\* C12: at the start of every epoch 0 <= early_stopping_counter <
\* args.patience (for patience >= 1); early_stopping_counter always equals
\* the number of epochs completed since the last checkpoint was written; and
\* the counter is 0 immediately after every checkpoint write.
C12_CounterIsEpochsSinceCheckpoint ==
    /\ (pc = "train" /\ args.patience >= 1) =>
          (0 <= early_stopping_counter /\ early_stopping_counter < args.patience)
    /\ early_stopping_counter = decisions - LastSave
    /\ (decisions >= 1 /\ decisions \in saves) => (early_stopping_counter = 0)

\* an epoch starts one epoch after the checkpoint of a later-than-first epoch
C12_Witness ==
    /\ pc = "train"
    /\ args.patience = 2
    /\ early_stopping_counter = 1
    /\ LastSave = 2
    /\ decisions = 3

\* the passes and decisions counted so far, at every position of run()
C3_Order ==
    /\ decisions <= validPasses
    /\ validPasses <= trainPasses
    /\ trainPasses <= decisions + 1
    /\ trainPasses <= args.n_epochs
    /\ validPasses = Len(aucs)
    /\ (pc = "train") => (trainPasses = decisions)
    /\ (pc = "validate") => (trainPasses = validPasses + 1)
    /\ (pc = "decide") => (validPasses = decisions + 1)
    /\ (pc = "done") => (trainPasses = decisions)
    /\ (pc = "done" /\ ~stopped) => (decisions = args.n_epochs)

\* C3: run() always terminates, after at most args.n_epochs epochs, each one
\* train pass, one validate pass and the decision in that order, and exactly
\* args.n_epochs epochs when no early stop is triggered.
C3_TerminatesWithinEpochs == [](C3_Order) /\ <>(pc \in {"done", "error"})

C3_Witness ==
    /\ pc = "done"
    /\ ~stopped
    /\ decisions = args.n_epochs
    /\ args.n_epochs >= 3

\* C8: get_model returns a model moved to args.device exactly when args.model
\* is lstm, lstmattn or bert; for another name it raises, and run() then
\* executes no epoch and writes no checkpoint.
C8_GetModelOnlyKnownNames ==
    (pc # "get_model") =>
       /\ (args.model \in ModelNames) <=>
             (model # Unbound /\ model.kind = args.model
                              /\ model.device = args.device)
       /\ (args.model \notin ModelNames) =>
             /\ pc = "error"
             /\ model = Unbound
             /\ trainPasses = 0
             /\ validPasses = 0
             /\ decisions = 0
             /\ saves = {}
             /\ checkpoint = NoCheckpoint

C8_Witness ==
    /\ pc = "error"
    /\ args.model \notin ModelNames
    /\ args.n_epochs >= 1

\* ------------------------------------- properties of process_batch
NCate == args.n_cate_feat
\* process_batch has just returned `input` for `batch`
Processed == stage = "model" /\ input # <<>>
RawMask == batch[Len(batch) - 1]
RawCorrect == batch[Len(batch)]
NRows == Len(RawMask)
SeqLen == Len(RawMask[1])

\* the elements of the processed input by their place in the documented
\* order (*cate, cont, mask, interaction, gather_index, correct)
InMask == input[NCate + 2]
InInteraction == input[NCate + 3]
InGather == input[NCate + 4]

\* the shifted history the interaction is documented to be
ShiftedCorrect ==
    [r \in 1..NRows |-> [t \in 1..SeqLen |->
        IF t = 1 THEN 0
        ELSE IF RawMask[r][t - 1] = 1 THEN RawCorrect[r][t - 1] + 1 ELSE 0]]

\* the padded categorical feature f as documented
PaddedCate(f) ==
    [r \in 1..NRows |-> [t \in 1..SeqLen |->
        IF RawMask[r][t] = 0 THEN 0 ELSE batch[f][r][t] + 1]]

\* C4: interaction[t] = correct[t-1] + 1 if mask[t-1] = 1 and 0 otherwise for
\* t >= 1, interaction[0] = 0, and every value lies in {0, 1, 2}, inside the
\* 3-row interaction embedding table.
C4_InteractionIsShiftedCorrect ==
    Processed =>
       /\ InInteraction = ShiftedCorrect
       /\ \A r \in 1..NRows, t \in 1..SeqLen :
             /\ InInteraction[r][t] \in {0, 1, 2}
             /\ InInteraction[r][t] < model.embedding_interaction.num

C4_Witness ==
    /\ Processed
    /\ SeqLen = 3
    /\ RawMask[1] = <<1, 0, 1>>
    /\ RawCorrect[1] = <<1, 1, 1>>
    /\ InInteraction[1] = <<0, 2, 0>>

\* the batch with the correct value of row r at position t changed
FlipCorrect(b, r, t) == [b EXCEPT ![Len(b)][r][t] = 1 - @]

\* a tensor cut to the positions 1..t of every row
UpTo(x, t) == [r \in 1..Len(x) |-> SubSeq(x[r], 1, t)]

\* C5: for two batches that differ only in the correct value of one row at
\* one position t, the categorical features, continuous features, mask and
\* interaction agree at t and before, gather_index agrees, and the
\* interaction at the last position does not depend on the last correct.
C5_NoLabelLeak ==
    Processed =>
       \A r \in 1..NRows, t \in 1..SeqLen :
          LET other == process_batch(FlipCorrect(batch, r, t), args) IN
          /\ Len(other) = Len(input)
          /\ \A i \in 1..(NCate + 3) : UpTo(other[i], t) = UpTo(input[i], t)
          /\ other[NCate + 4] = InGather
          /\ (t = SeqLen) =>
                (other[NCate + 3][r][SeqLen] = InInteraction[r][SeqLen])

\* the flipped label does reach the input, at the next position
C5_Witness ==
    /\ Processed
    /\ NRows >= 2
    /\ SeqLen = 3
    /\ process_batch(FlipCorrect(batch, 2, 2), args)[NCate + 3][2][3]
          # InInteraction[2][3]

\* C7: every categorical output is 0 where mask = 0 and raw + 1 where
\* mask = 1; for raw IDs in 0..value-1 a padded position is 0, a real position
\* is not 0 and every output lies in 0..value, inside the table of value + 1
\* rows built for the feature.
C7_CatePaddingInsideTable ==
    Processed =>
       \A f \in 1..NCate :
          /\ input[f] = PaddedCate(f)
          /\ \A r \in 1..NRows, t \in 1..SeqLen :
                (batch[f][r][t] \in 0..(args.n_embedding_layers[f] - 1)) =>
                   /\ (RawMask[r][t] = 0) => (input[f][r][t] = 0)
                   /\ (RawMask[r][t] = 1) => (input[f][r][t] # 0)
                   /\ input[f][r][t] \in 0..args.n_embedding_layers[f]
                   /\ (f <= Len(model.embedding_features)) =>
                         /\ model.embedding_features[f].num
                               = args.n_embedding_layers[f] + 1
                         /\ input[f][r][t] < model.embedding_features[f].num

C7_Witness ==
    /\ Processed
    /\ NCate >= 2
    /\ \E r \in 1..NRows, t \in 1..SeqLen :
          /\ RawMask[r][t] = 1
          /\ batch[2][r][t] = args.n_embedding_layers[2] - 1
          /\ input[2][r][t] = args.n_embedding_layers[2]
    /\ \E r \in 1..NRows, t \in 1..SeqLen :
          /\ RawMask[r][t] = 0
          /\ batch[2][r][t] > 0
          /\ input[2][r][t] = 0

\* number of positions of row r whose mask is not 0
Unmasked(r) == Cardinality({t \in 1..SeqLen : RawMask[r][t] # 0})

\* C11: gather_index is, for every row, the index that selects the last
\* sequence element: it equals (number of positions with mask != 0) - 1, it
\* points at an unmasked position of the row, and it is -1 for a row whose
\* mask is all zero.
C11_GatherIndexSelectsLastElement ==
    Processed =>
       \A r \in 1..NRows :
          /\ InGather[r] = <<Unmasked(r) - 1>>
          /\ (Unmasked(r) = 0) => (InGather[r][1] = -1)
          /\ (Unmasked(r) > 0) => (RawMask[r][InGather[r][1] + 1] # 0)

\* ------------------------------------------- properties of the forward
ForwardRan == fwd.error \in {"none", "RuntimeError"}

\* C6: the per-step width of the tensor handed to the sequence layer equals
\* hidden_dim for every hidden_dim >= 1 and every n_cont_feat >= 0.
C6_WidthIsHiddenDim ==
    ForwardRan =>
       /\ fwd.width = args.hidden_dim
       /\ fwd.width = model.seq_input_size

\* feature i of the processed input is embedded by `table`
EmbeddedBy(i, table) ==
    \E e \in 1..Len(fwd.embedded) :
       /\ fwd.embedded[e].table = table
       /\ fwd.embedded[e].x = input[i]

\* the processed input is the documented tuple, forward() reads
\* (cont_features, mask, interaction) from it and train/validate the targets
LayoutRead ==
    /\ Len(input) = NCate + 5
    /\ \A i \in 1..NCate : input[i] = PaddedCate(i)
    /\ input[NCate + 1] =
          ContFeatures(PySlice(batch, NCate, -2), RawMask)
    /\ InMask = RawMask
    /\ InInteraction = ShiftedCorrect
    /\ InGather = GatherIndex(RawMask)
    /\ input[NCate + 5] = RawCorrect
    /\ fwd.cont_features = input[NCate + 1]
    /\ fwd.mask = RawMask
    /\ fwd.interaction = ShiftedCorrect
    /\ (fwd.error = "none") => (targets = RawCorrect)

\* C9 (as stated): process_batch returns n_cate_feat + 5 elements in the
\* order categorical features, cont_features, mask, interaction,
\* gather_index, correct; the models read input[-5:-2] as (cont_features,
\* mask, interaction), train/validate read input[-1] as correct, and the i-th
\* categorical feature is embedded by the i-th embedding table, none dropped
\* when len(n_embedding_layers) = n_cate_feat.
C9_LayoutAgreement ==
    ForwardRan =>
       /\ LayoutRead
       /\ (Len(args.n_embedding_layers) = NCate) =>
             \A i \in 1..NCate :
                EmbeddedBy(i, Table("embedding_features", i))

\* C9 (amended): as stated for LSTM and Bert; in LSTMATTN (which needs
\* n_cate_feat >= 2) only the first n_cate_feat - 2 features are embedded by
\* the i-th table, the last two by the pretrained user and item lookups.
C9_LayoutAgreementPerModel ==
    ForwardRan =>
       /\ LayoutRead
       /\ (model.kind \in {"lstm", "bert"}
             /\ Len(args.n_embedding_layers) = NCate) =>
             /\ Len(fwd.embedded) = NCate + 1
             /\ \A i \in 1..NCate :
                   EmbeddedBy(i, Table("embedding_features", i))
       /\ (model.kind = "lstmattn") => (NCate >= 2)
       /\ (model.kind = "lstmattn"
             /\ Len(args.n_embedding_layers) = NCate) =>
             /\ Len(fwd.embedded) = NCate
             /\ \A i \in 1..(NCate - 2) :
                   EmbeddedBy(i, Table("embedding_features", i))
             /\ EmbeddedBy(NCate - 1, Table("user_lookup", 0))
             /\ EmbeddedBy(NCate, Table("item_lookup", 0))

C9_Witness ==
    /\ fwd.error = "none"
    /\ model.kind = "lstm"
    /\ NCate = 3
    /\ Len(args.n_embedding_layers) = 3
    /\ args.n_cont_feat = 1
    /\ Len(fwd.embedded) = 4
    /\ InMask # InInteraction

\* ------------------------------------ properties of loss and collection
\* the loss and the collected columns of the batch just handled
JustCollected ==
    /\ stage \in {"batch", "metric"}
    /\ preds # <<>>
TrainLossFresh ==
    /\ JustCollected
    /\ \/ pc = "train"
       \/ pc = "validate" /\ step = 0

SetAt(x, r, t, v) == [x EXCEPT ![r][t] = v]

\* the last position of every row of the k-th network output / target tensor
LastPreds(k) == [r \in 1..Len(net[k]) |-> net[k][r][Len(net[k][r])]]
LastTargets(k) ==
    LET c == loader[k][Len(loader[k])] IN
    [r \in 1..Len(c) |-> c[r][Len(c[r])]]

\* C10: compute_loss averages over the batch the per-element loss at the
\* last position of each row; train/validate collect one prediction and one
\* target per row, taken at the last position; values at other positions
\* change neither the loss nor the metric inputs.
C10_LastPositionOnly ==
    /\ TrainLossFresh =>
          LET L == Len(preds[1])
              c == get_criterion(preds, targets)
          IN  /\ loss.den = Len(preds)
              /\ loss.num = SumSeq([r \in 1..Len(preds) |-> c[r][L]])
              /\ \A r \in 1..Len(preds), t \in 1..(L - 1) :
                    \A v \in 0..MaxPred, y \in {0, 1} :
                       compute_loss(SetAt(preds, r, t, v),
                                    SetAt(targets, r, t, y)) = loss
    /\ (stage = "batch" /\ pc \in {"train", "validate"}) =>
          /\ Len(total_preds) = step
          /\ Len(total_targets) = step
          /\ \A k \in 1..step :
                /\ total_preds[k] = LastPreds(k)
                /\ total_targets[k] = LastTargets(k)
    /\ (metric_in # NoMetric) =>
          /\ metric_in.preds = Concat([k \in 1..Len(loader) |-> LastPreds(k)])
          /\ metric_in.targets =
                Concat([k \in 1..Len(loader) |-> LastTargets(k)])
          /\ Len(metric_in.preds) = Len(loader) * Len(net[1])
          /\ Len(metric_in.targets) = Len(loader) * Len(net[1])

C10_Witness ==
    /\ pc = "validated"
    /\ loss # NoLoss
    /\ Len(preds[1]) >= 2
    /\ net[1][1][1] # net[1][1][Len(net[1][1])]
    /\ Len(metric_in.preds) >= 2

====
